---- MODULE Spec2Model ----
(***************************************************************************)
(* FeatureLoader (modules/nuclide-commons-atom/FeatureLoader.js): which    *)
(* features of a catalog are enabled by the configuration, and the         *)
(* load / activate / reconcile / deactivate / serialize lifecycle that     *)
(* drives the host package manager (atom.packages).                        *)
(*                                                                         *)
(* Strings that the code inspects (package names) are sequences of         *)
(* one-character strings; a path is a sequence of such segments.           *)
(***************************************************************************)
EXTENDS Integers, Sequences, FiniteSets, TLC

VARIABLES
  _currentlyActiveFeatures,  \* this._currentlyActiveFeatures: Set<Feature>
  _activationDisposable,     \* this._activationDisposable: "null" | "live"
  _config,                   \* this._config: "null" | "built"
  loadListeners,             \* live onDidLoadPackage listeners registered by load()
  useFeatureRules,           \* atom.config value at `${pkgName}.use`
  enabledFeatureGroups,      \* atom.config value at `${pkgName}.enabledFeatureGroups`
  hostPkg,                   \* atom.packages: package name -> "none" | "loaded" | "active"
  rootLoaded,                \* atom.packages.getLoadedPackage(this._pkgName) != null
  calls,                     \* host calls issued by the last operation, in order
  lastOp,                    \* the last operation that ran
  err,                       \* how it ended: "none" | "invariant" | "host"
  configSubscriptions,       \* live atom.config.onDidChange subscriptions of the loader
  activationRequested,       \* names whose last activatePackage call returned, with no deactivatePackage call since
  configChanges,             \* number of configuration changes so far
  resolveCall,               \* a call of getEnabledFeatures on a loader of its own: arguments and result
  deactivateCompleted,       \* a call of deactivate() has returned
  reorderCall                \* a call of reorderFeatures: the array given, the array after the call, the result

vars == <<_currentlyActiveFeatures, _activationDisposable,
          _config, loadListeners, useFeatureRules, enabledFeatureGroups, hostPkg,
          rootLoaded, calls, lastOp, err, configSubscriptions, activationRequested,
          configChanges, resolveCall, deactivateCompleted, reorderCall>>

-----------------------------------------------------------------------------
(* Bounds of the model *)

MaxConfigChanges == 1
MaxFaults == 1
MaxLoads == 1
MaxReorderLen == 4

-----------------------------------------------------------------------------
(* Constants of the program *)

NULL == "null"

ALWAYS_ENABLED == "always"
NEVER_ENABLED == "never"
DEFAULT == "default"
\* the boolean `true` of the test rule === true
RULE_TRUE == "true"
REQUIRED_FEATURE_GROUP == "nuclide-required"
REPOSITORY_PROVIDER == "atom.repository-provider"

\* 'sample-' in name.startsWith('sample-')
SAMPLE_PREFIX == <<"s", "a", "m", "p", "l", "e", "-">>

-----------------------------------------------------------------------------
(* The catalog and the group definitions the loader is constructed with *)

NameHg == <<"h", "g">>
NameUi == <<"u", "i">>
NameSampleX == <<"s", "a", "m", "p", "l", "e", "-", "x">>
NameGhost == <<"g", "h", "o", "s", "t">>
NameSample == <<"s", "a", "m", "p", "l", "e">>
NameGit == <<"g", "i", "t">>

PkgDir == <<"p", "k", "g">>

MkFeature(name, provided) ==
  [path |-> <<PkgDir, name>>,
   pkg  |-> [name |-> name, providedServices |-> provided]]

FeatUi == MkFeature(NameUi, {})
FeatSampleX == MkFeature(NameSampleX, {"sample.service"})
FeatHg == MkFeature(NameHg, {REPOSITORY_PROVIDER})
FeatSample == MkFeature(NameSample, {})
FeatGit == MkFeature(NameGit, {REPOSITORY_PROVIDER, "git.service"})

\* The `features` array given to the constructor.
InputFeatures == <<FeatUi, FeatSampleX, FeatHg>>

\* The `featureGroups` object given to the constructor. A value of the object
\* is [isArray |-> TRUE, names |-> the array] or, when it is no array,
\* [isArray |-> FALSE, names |-> <<>>].
ArrayOf(names) == [isArray |-> TRUE, names |-> names]
NotAnArray == [isArray |-> FALSE, names |-> <<>>]

\* The group definitions of the loader whose lifecycle is followed.
LoaderGroups ==
  [g \in {"g1", "g2", REQUIRED_FEATURE_GROUP, "bad"} |->
     CASE g = "g1" -> ArrayOf(<<NameUi, NameHg>>)
       [] g = "g2" -> ArrayOf(<<NameHg, NameSampleX, NameGhost>>)
       [] g = REQUIRED_FEATURE_GROUP -> ArrayOf(<<NameGhost>>)
       [] OTHER -> NotAnArray]

\* Values of the two configuration keys. The value at `use` maps a feature
\* name to its rule or to NULL (no entry); the value at `enabledFeatureGroups`
\* is an array of group names, or null/undefined.
RuleValues == {ALWAYS_ENABLED, NEVER_ENABLED, DEFAULT}
NameSet == {NameHg, NameUi, NameSampleX}
GroupsUnset == [isNull |-> TRUE, groups |-> <<>>]
GroupsOf(groups) == [isNull |-> FALSE, groups |-> groups]
EnabledGroupChoices ==
  {GroupsUnset, GroupsOf(<<"g1">>), GroupsOf(<<"g2">>), GroupsOf(<<"gX">>)}

\* The configuration the loader finds when it is constructed: a sample
\* feature switched to 'default', and one group enabled.
StartupConfig ==
  [use |-> [n \in NameSet |-> IF n = NameSampleX THEN DEFAULT ELSE NULL],
   enabledFeatureGroups |-> GroupsOf(<<"g1">>)]

Range(s) == {s[i] : i \in 1..Len(s)}

-----------------------------------------------------------------------------
(* Pure helpers *)

startsWith(s, prefix) ==
  /\ Len(s) >= Len(prefix)
  /\ SubSeq(s, 1, Len(prefix)) = prefix

\* path.basename(pkgPath)
packageNameFromPath(pkgPath) == pkgPath[Len(pkgPath)]

packageIsRepositoryProvider(pkg) == REPOSITORY_PROVIDER \in pkg.providedServices

getFeatureDefaultValue(feature) ==
  IF startsWith(packageNameFromPath(feature.path), SAMPLE_PREFIX)
  THEN NEVER_ENABLED
  ELSE DEFAULT

\* originalOrder.get(feature): new Map(features.map((feature, i) => [feature, i]))
\* keeps, for a feature that occurs more than once, its last index.
originalOrder(features, feature) ==
  CHOOSE i \in 1..Len(features) :
    /\ features[i] = feature
    /\ \A j \in 1..Len(features) : features[j] = feature => j <= i

\* The comparator with the sign of its first return turned round.
compareFeaturesProvidersLast(features, a, b) ==
  LET aIsRepoProvider == packageIsRepositoryProvider(a.pkg)
      bIsRepoProvider == packageIsRepositoryProvider(b.pkg)
  IN IF aIsRepoProvider # bIsRepoProvider
     THEN (IF aIsRepoProvider THEN 1 ELSE -1)
     ELSE originalOrder(features, a) - originalOrder(features, b)

\* The comparator of features.sort: negative when a sorts before b.
compareFeatures(features, a, b) ==
  LET aIsRepoProvider == packageIsRepositoryProvider(a.pkg)
      bIsRepoProvider == packageIsRepositoryProvider(b.pkg)
  IN IF aIsRepoProvider # bIsRepoProvider
     THEN (IF aIsRepoProvider THEN -1 ELSE 1)
     ELSE originalOrder(features, a) - originalOrder(features, b)

\* Insert x into the sorted sequence s, after the elements that do not sort
\* after it.
RECURSIVE insertSorted(_, _, _)
insertSorted(features, s, x) ==
  IF s = <<>> THEN <<x>>
  ELSE IF compareFeatures(features, x, Head(s)) < 0
       THEN <<x>> \o s
       ELSE <<Head(s)>> \o insertSorted(features, Tail(s), x)

RECURSIVE sortFrom(_, _, _)
sortFrom(features, i, acc) ==
  IF i > Len(features) THEN acc
  ELSE sortFrom(features, i + 1, insertSorted(features, acc, features[i]))

\* reorderFeatures(features_): a sorted copy; the comparator orders the
\* elements totally, so every sorting algorithm gives this result.
reorderFeatures(features_) == sortFrom(features_, 1, <<>>)

\* MultiMap.get(key): the set stored at key, the empty set when there is none.
MultiMapGet(m, key) == IF key \in DOMAIN m THEN m[key] ELSE {}

\* setUnion(...sets)
setUnion(sets) == UNION Range(sets)

\* namesToFeatures.get(featureName): the last feature of the array with that
\* basename; NoFeature (undefined) when there is none.
NoFeature == [path |-> <<>>, pkg |-> [name |-> <<>>, providedServices |-> {}]]

namesToFeatures(features, featureName) ==
  LET at == { i \in 1..Len(features) : packageNameFromPath(features[i].path) = featureName }
  IN IF at = {} THEN NoFeature
     ELSE features[CHOOSE i \in at : \A j \in at : j <= i]

\* rawFeatureGroups[key].map(name => namesToFeatures.get(name)).filter(Boolean)
featuresForKey(features, names) ==
  SelectSeq([i \in 1..Len(names) |-> namesToFeatures(features, names[i])],
            LAMBDA f : f # NoFeature)

\* groupFeatures(features, rawFeatureGroups). MultiMap.set(key, values) stores
\* new Set(values), and stores nothing for an empty set.
groupFeatures(features, rawFeatureGroups) ==
  LET keys == { k \in DOMAIN rawFeatureGroups :
                  /\ rawFeatureGroups[k].isArray
                  /\ featuresForKey(features, rawFeatureGroups[k].names) # <<>> }
  IN [k \in keys |-> Range(featuresForKey(features, rawFeatureGroups[k].names))]

-----------------------------------------------------------------------------
(* getEnabledFeatures *)

\* The filter without its test of the required group.
enabledFeatureSeqNoRequired(features, featureGroups, rules, enabledGroups) ==
  LET featuresInEnabledGroups ==
        IF ~enabledGroups.isNull
        THEN setUnion([i \in 1..Len(enabledGroups.groups) |->
                         MultiMapGet(featureGroups, enabledGroups.groups[i])])
        ELSE Range(features)
      keep(feature) ==
        LET featureName == packageNameFromPath(feature.path)
            rawRule == rules[featureName]
            rule == IF rawRule = NULL THEN getFeatureDefaultValue(feature) ELSE rawRule
        IN \/ rule = ALWAYS_ENABLED
           \/ rule = RULE_TRUE
           \/ (feature \in featuresInEnabledGroups /\ rule = DEFAULT)
  IN SelectSeq(features, keep)

\* The features of `features` that pass the filter, in array order: the
\* insertion order of the Set the code returns.
enabledFeatureSeq(features, featureGroups, rules, enabledGroups) ==
  LET featuresInEnabledGroups ==
        IF ~enabledGroups.isNull
        THEN setUnion([i \in 1..Len(enabledGroups.groups) |->
                         MultiMapGet(featureGroups, enabledGroups.groups[i])])
        ELSE Range(features)
      requiredFeatures == MultiMapGet(featureGroups, REQUIRED_FEATURE_GROUP)
      keep(feature) ==
        LET featureName == packageNameFromPath(feature.path)
            rawRule == rules[featureName]
            rule == IF rawRule = NULL THEN getFeatureDefaultValue(feature) ELSE rawRule
        IN \/ rule = ALWAYS_ENABLED
           \/ rule = RULE_TRUE
           \/ (feature \in featuresInEnabledGroups /\ rule = DEFAULT)
           \/ feature \in requiredFeatures
  IN SelectSeq(features, keep)

getEnabledFeatures(features, featureGroups, rules, enabledGroups) ==
  Range(enabledFeatureSeq(features, featureGroups, rules, enabledGroups))

-----------------------------------------------------------------------------
(* The host (atom.packages) as the loader drives it *)

\* What the host does with the calls of one operation: the packages whose
\* activatePackage throws, the packages that cannot be loaded (activatePackage
\* returns a rejected promise and the package stays unloaded), the packages
\* whose deactivatePackage throws and those whose serializePackage throws.
\*
\* A behaviour deviates from the faultless one on at most MaxFaults calls, and
\* only on calls the operation makes (a fault of a call that is not made
\* changes nothing): activatePackage of the names in `act`, deactivatePackage
\* of those in `deact`, serializePackage of those in `ser`.
faultOf(events) ==
  [throwAct   |-> { e[2] : e \in { x \in events : x[1] = "throwAct" } },
   failLoad   |-> { e[2] : e \in { x \in events : x[1] = "failLoad" } },
   throwDeact |-> { e[2] : e \in { x \in events : x[1] = "throwDeact" } },
   throwSer   |-> { e[2] : e \in { x \in events : x[1] = "throwSer" } }]

faultsAmong(act, deact, ser) ==
  LET events == ({"throwAct", "failLoad"} \X act) \cup ({"throwDeact"} \X deact)
                  \cup ({"throwSer"} \X ser)
  IN { faultOf(es) : es \in { x \in SUBSET events : Cardinality(x) <= MaxFaults } }

\* One host call as the log keeps it: the operation, the package it names,
\* the suppressSerialization argument (deactivatePackage only) and whether
\* the call threw.
Call(op, pkg, suppress, threw) ==
  [op |-> op, pkg |-> pkg, suppress |-> suppress, threw |-> threw]

\* The state an operation threads through its host calls: the host's
\* packages, the calls so far, the outstanding activation requests, and
\* whether an exception is propagating.
Thread(pkg, req) == [pkg |-> pkg, calls |-> <<>>, req |-> req, threw |-> FALSE]

\* atom.packages.loadPackage(feature.path)
loadPackage(h, feature) ==
  LET name == packageNameFromPath(feature.path)
  IN [h EXCEPT
        !.calls = Append(@, Call("loadPackage", name, FALSE, FALSE)),
        !.pkg = IF @[name] = "none" THEN [@ EXCEPT ![name] = "loaded"] ELSE @]

\* atom.packages.activatePackage(feature.path), called outside any try block.
activatePackage(h, feature, ft) ==
  LET name == packageNameFromPath(feature.path)
  IN IF name \in ft.throwAct
     THEN [h EXCEPT
             !.calls = Append(@, Call("activatePackage", name, FALSE, TRUE)),
             !.threw = TRUE]
     ELSE [h EXCEPT
             !.calls = Append(@, Call("activatePackage", name, FALSE, FALSE)),
             !.req = @ \cup {name},
             !.pkg = IF name \in ft.failLoad THEN @ ELSE [@ EXCEPT ![name] = "active"]]

\* atom.packages.deactivatePackage(name, suppressSerialization); `caught`
\* tells whether the call is made inside a try block that catches its error.
deactivatePackage(h, name, suppressSerialization, ft, caught) ==
  IF name \in ft.throwDeact
  THEN [h EXCEPT
          !.calls = Append(@, Call("deactivatePackage", name, suppressSerialization, TRUE)),
          !.req = @ \ {name},
          !.threw = ~caught]
  ELSE [h EXCEPT
          !.calls = Append(@, Call("deactivatePackage", name, suppressSerialization, FALSE)),
          !.req = @ \ {name},
          !.pkg = [@ EXCEPT ![name] = "loaded"]]

\* safeDeactivate without its test of getLoadedPackage(name).
safeDeactivateUnguarded(h, feature, suppressSerialization, ft) ==
  deactivatePackage(h, packageNameFromPath(feature.path), suppressSerialization, ft, TRUE)

\* safeDeactivate passing `true` for suppressSerialization whatever it is given.
safeDeactivateSuppressing(h, feature, suppressSerialization, ft) ==
  LET name == packageNameFromPath(feature.path)
  IN IF h.pkg[name] # "none"
     THEN deactivatePackage(h, name, TRUE, ft, TRUE)
     ELSE h

\* safeDeactivate without its try block.
safeDeactivateUncaught(h, feature, suppressSerialization, ft) ==
  LET name == packageNameFromPath(feature.path)
  IN IF h.pkg[name] # "none"
     THEN deactivatePackage(h, name, suppressSerialization, ft, FALSE)
     ELSE h

\* safeDeactivate(feature, suppressSerialization)
safeDeactivate(h, feature, suppressSerialization, ft) ==
  LET name == packageNameFromPath(feature.path)
  IN IF h.pkg[name] # "none"
     THEN deactivatePackage(h, name, suppressSerialization, ft, TRUE)
     ELSE h

\* atom.packages.serializePackage(pack)
serializePackage(h, name, ft, caught) ==
  [h EXCEPT
     !.calls = Append(@, Call("serializePackage", name, FALSE, name \in ft.throwSer)),
     !.threw = name \in ft.throwSer /\ ~caught]

\* safeSerialize without its try block.
safeSerializeUncaught(h, feature, ft) ==
  LET name == packageNameFromPath(feature.path)
  IN IF h.pkg[name] = "active"
     THEN serializePackage(h, name, ft, FALSE)
     ELSE h

\* safeSerialize(feature)
safeSerialize(h, feature, ft) ==
  LET name == packageNameFromPath(feature.path)
  IN IF h.pkg[name] = "active"
     THEN serializePackage(h, name, ft, TRUE)
     ELSE h

\* for (const x of xs) step(h, x), left when an exception propagates.
RECURSIVE forEach(_, _, _)
forEach(xs, step(_, _), h) ==
  IF xs = <<>> \/ h.threw THEN h
  ELSE forEach(Tail(xs), step, step(h, Head(xs)))

\* The iteration order of a Set<Feature> the loader holds: every such set is
\* built from a filter of the features array, so it is the array's order.
setOrder(features, set) == SelectSeq(features, LAMBDA f : f \in set)

-----------------------------------------------------------------------------
(* updateActiveFeatures *)

\* updateActiveFeatures activating every enabled feature, without the test
\* !this._currentlyActiveFeatures.has(feature).
updateActiveFeaturesNoHasCheck(active, features, featureGroups, rules, enabledGroups, h, ft) ==
  LET featuresToActivate == enabledFeatureSeq(features, featureGroups, rules, enabledGroups)
      afterActivations ==
        forEach(featuresToActivate,
                LAMBDA hh, feature : activatePackage(hh, feature, ft),
                h)
      afterDeactivations ==
        forEach(setOrder(features, active),
                LAMBDA hh, feature :
                  IF feature \notin Range(featuresToActivate)
                  THEN safeDeactivate(hh, feature, FALSE, ft) ELSE hh,
                afterActivations)
  IN IF afterActivations.threw
     THEN [active |-> active, h |-> afterActivations]
     ELSE [active |-> Range(featuresToActivate), h |-> afterDeactivations]

\* The result is [active |-> the new this._currentlyActiveFeatures, h |-> thread].
updateActiveFeatures(active, features, featureGroups, rules, enabledGroups, h, ft) ==
  LET featuresToActivate == enabledFeatureSeq(features, featureGroups, rules, enabledGroups)
      afterActivations ==
        forEach(featuresToActivate,
                LAMBDA hh, feature :
                  IF feature \notin active THEN activatePackage(hh, feature, ft) ELSE hh,
                h)
      afterDeactivations ==
        forEach(setOrder(features, active),
                LAMBDA hh, feature :
                  IF feature \notin Range(featuresToActivate)
                  THEN safeDeactivate(hh, feature, FALSE, ft) ELSE hh,
                afterActivations)
  IN IF afterActivations.threw
     THEN [active |-> active, h |-> afterActivations]
     ELSE [active |-> Range(featuresToActivate), h |-> afterDeactivations]

-----------------------------------------------------------------------------
(* The state machine *)

\* No call of getEnabledFeatures is followed.
NoResolveCall ==
  [features |-> <<>>, featureGroups |-> <<>>, rules |-> <<>>,
   enabledGroups |-> GroupsUnset, done |-> TRUE, result |-> {}]

\* No call of reorderFeatures is followed.
NoReorderCall == [given |-> <<>>, features_ |-> <<>>, done |-> TRUE, returned |-> <<>>]

\* The constructor: this._features and this._featureGroups are assigned once
\* and never again.
_features == reorderFeatures(InputFeatures)
_featureGroups == groupFeatures(_features, LoaderGroups)

InitLoader ==
  /\ _currentlyActiveFeatures = {}
  /\ _activationDisposable = "null"
  /\ _config = "null"
  /\ loadListeners = 0
  /\ useFeatureRules = StartupConfig.use
  /\ enabledFeatureGroups = StartupConfig.enabledFeatureGroups
  /\ hostPkg = [n \in NameSet |-> "none"]
  /\ rootLoaded = FALSE
  /\ calls = <<>>
  /\ lastOp = "new"
  /\ err = "none"
  /\ configSubscriptions = 0
  /\ activationRequested = {}
  /\ configChanges = 0
  /\ deactivateCompleted = FALSE

Init ==
  /\ InitLoader
  /\ resolveCall = NoResolveCall
  /\ reorderCall = NoReorderCall

\* The reconciliation pass on the current state, as every caller runs it.
pass(rules, enabledGroups, ft) ==
  updateActiveFeatures(_currentlyActiveFeatures, _features, _featureGroups,
                       rules, enabledGroups, Thread(hostPkg, activationRequested), ft)

namesOf(featureSet) == { packageNameFromPath(f.path) : f \in featureSet }

\* The host's behaviours on the calls a pass makes.
passFaults(rules, enabledGroups) ==
  LET desired == getEnabledFeatures(_features, _featureGroups, rules, enabledGroups)
      toActivate == namesOf(desired \ _currentlyActiveFeatures)
      toDeactivate == { n \in namesOf(_currentlyActiveFeatures \ desired) :
                          hostPkg[n] # "none" }
  IN faultsAmong(toActivate, toDeactivate, {})

\* What a pass leaves behind.
applyPass(r) ==
  /\ _currentlyActiveFeatures' = r.active
  /\ hostPkg' = r.h.pkg
  /\ calls' = r.h.calls
  /\ activationRequested' = r.h.req
  /\ err' = IF r.h.threw THEN "host" ELSE "none"

\* load(): the invariant on this._loadDisposable cannot fail, since nothing
\* disposes it. Builds the config and registers a one-shot listener for the
\* owner package's load.
Load ==
  /\ loadListeners < MaxLoads
  /\ _config' = "built"
  /\ loadListeners' = loadListeners + 1
  /\ lastOp' = "load"
  /\ err' = "none"
  /\ calls' = <<>>
  /\ UNCHANGED <<_currentlyActiveFeatures, _activationDisposable,
                 useFeatureRules, enabledFeatureGroups, hostPkg, rootLoaded,
                 configSubscriptions, activationRequested, configChanges, resolveCall,
                 deactivateCompleted,
                 reorderCall>>

\* The callback of whenPackageLoaded: load every enabled feature. The hand-over
\* of the same features to activateExperimentalPackages finds no feature of
\* the experimental format in the catalog and is left out.
loadEnabledFeatures(h) ==
  forEach(enabledFeatureSeq(_features, _featureGroups, useFeatureRules, enabledFeatureGroups),
          LAMBDA hh, feature : loadPackage(hh, feature),
          h)

RECURSIVE runLoadListeners(_, _)
runLoadListeners(n, h) ==
  IF n = 0 THEN h ELSE runLoadListeners(n - 1, loadEnabledFeatures(h))

\* The same signal with listeners that do not dispose themselves.
OwnerPackageLoadedKeepingListeners ==
    LET h == runLoadListeners(loadListeners, Thread(hostPkg, activationRequested))
    IN /\ rootLoaded' = TRUE
       /\ hostPkg' = h.pkg
       /\ calls' = h.calls
       /\ lastOp' = "ownerPackageLoaded"
       /\ err' = "none"
       /\ UNCHANGED <<_currentlyActiveFeatures, loadListeners,
                      _activationDisposable, _config, useFeatureRules,
                      enabledFeatureGroups, configSubscriptions, activationRequested,
                      configChanges, resolveCall, deactivateCompleted,
                 reorderCall>>

\* The host signals onDidLoadPackage for the owner package: every live
\* listener disposes itself and runs its callback.
OwnerPackageLoaded ==
    LET h == runLoadListeners(loadListeners, Thread(hostPkg, activationRequested))
    IN /\ rootLoaded' = TRUE
       /\ loadListeners' = 0
       /\ hostPkg' = h.pkg
       /\ calls' = h.calls
       /\ lastOp' = "ownerPackageLoaded"
       /\ err' = "none"
       /\ UNCHANGED <<_currentlyActiveFeatures,
                      _activationDisposable, _config, useFeatureRules,
                      enabledFeatureGroups, configSubscriptions, activationRequested,
                      configChanges, resolveCall,
                 deactivateCompleted,
                 reorderCall>>

\* The host signals onDidLoadPackage for another package: the listeners return
\* at once.
OtherPackageLoaded ==
  /\ lastOp' = "otherPackageLoaded"
  /\ err' = "none"
  /\ calls' = <<>>
  /\ UNCHANGED <<_currentlyActiveFeatures, _activationDisposable,
                 _config, loadListeners, useFeatureRules, enabledFeatureGroups, hostPkg,
                 rootLoaded, configSubscriptions, activationRequested, configChanges, resolveCall,
                 deactivateCompleted,
                 reorderCall>>

\* activate() refusing also every call that follows a completed deactivate().
ActivateRejectedOnceDeactivated ==
  /\ _activationDisposable # "null" \/ ~rootLoaded \/ deactivateCompleted
  /\ lastOp' = "activate"
  /\ err' = "invariant"
  /\ calls' = <<>>
  /\ UNCHANGED <<_currentlyActiveFeatures, _activationDisposable,
                 _config, loadListeners, useFeatureRules, enabledFeatureGroups, hostPkg,
                 rootLoaded, configSubscriptions, activationRequested, configChanges, resolveCall,
                 deactivateCompleted,
                 reorderCall>>

\* activate() with one of its two invariants failing.
ActivateRejected ==
  /\ _activationDisposable # "null" \/ ~rootLoaded
  /\ lastOp' = "activate"
  /\ err' = "invariant"
  /\ calls' = <<>>
  /\ UNCHANGED <<_currentlyActiveFeatures, _activationDisposable,
                 _config, loadListeners, useFeatureRules, enabledFeatureGroups, hostPkg,
                 rootLoaded, configSubscriptions, activationRequested, configChanges, resolveCall,
                 deactivateCompleted,
                 reorderCall>>

\* activate() without its invariant on this._activationDisposable.
ActivateWhileActivated ==
  /\ rootLoaded
  /\ \E ft \in passFaults(useFeatureRules, enabledFeatureGroups) :
       applyPass(pass(useFeatureRules, enabledFeatureGroups, ft))
  /\ _activationDisposable' = "live"
  /\ configSubscriptions' = configSubscriptions + 2
  /\ lastOp' = "activate"
  /\ UNCHANGED <<_config, loadListeners, useFeatureRules,
                 enabledFeatureGroups, rootLoaded, configChanges, resolveCall,
                 deactivateCompleted,
                 reorderCall>>

\* activate(): subscribes to the two configuration keys, then reconciles.
Activate ==
  /\ _activationDisposable = "null"
  /\ rootLoaded
  /\ \E ft \in passFaults(useFeatureRules, enabledFeatureGroups) :
       applyPass(pass(useFeatureRules, enabledFeatureGroups, ft))
  /\ _activationDisposable' = "live"
  /\ configSubscriptions' = configSubscriptions + 2
  /\ lastOp' = "activate"
  /\ UNCHANGED <<_config, loadListeners, useFeatureRules,
                 enabledFeatureGroups, rootLoaded, configChanges, resolveCall,
                 deactivateCompleted,
                 reorderCall>>

\* updateActiveFeatures() called by the owner of the loader.
UpdateActiveFeatures ==
  /\ \E ft \in passFaults(useFeatureRules, enabledFeatureGroups) :
       applyPass(pass(useFeatureRules, enabledFeatureGroups, ft))
  /\ lastOp' = "updateActiveFeatures"
  /\ UNCHANGED <<_activationDisposable, _config, loadListeners,
                 useFeatureRules, enabledFeatureGroups, rootLoaded, configSubscriptions,
                 configChanges, resolveCall,
                 deactivateCompleted,
                 reorderCall>>

\* The configuration changes to (rules, enabledGroups); the subscription of
\* the changed key, when live, runs updateActiveFeatures.
configChanged(rules, enabledGroups) ==
  /\ configChanges < MaxConfigChanges
  /\ configChanges' = configChanges + 1
  /\ useFeatureRules' = rules
  /\ enabledFeatureGroups' = enabledGroups
  /\ IF configSubscriptions > 0
     THEN \E ft \in passFaults(rules, enabledGroups) :
            applyPass(pass(rules, enabledGroups, ft))
     ELSE /\ calls' = <<>>
          /\ err' = "none"
          /\ UNCHANGED <<_currentlyActiveFeatures, hostPkg, activationRequested,
                 reorderCall>>
  /\ UNCHANGED <<_activationDisposable, _config, loadListeners,
                 rootLoaded, configSubscriptions, resolveCall,
                 deactivateCompleted,
                 reorderCall>>

\* atom.config.set(`${pkgName}.use.${name}`, rule), or its removal.
UseRuleChanged ==
  /\ \E n \in NameSet, rule \in RuleValues \cup {NULL} :
       /\ rule # useFeatureRules[n]
       /\ configChanged([useFeatureRules EXCEPT ![n] = rule], enabledFeatureGroups)
  /\ lastOp' = "useRuleChanged"

\* atom.config.set(`${pkgName}.enabledFeatureGroups`, groups), or its removal.
EnabledGroupsChanged ==
  /\ \E groups \in EnabledGroupChoices :
       /\ groups # enabledFeatureGroups
       /\ configChanged(useFeatureRules, groups)
  /\ lastOp' = "enabledGroupsChanged"

\* deactivate() returning at once, without an error, when the loader is not
\* activated.
DeactivateIgnored ==
  /\ _activationDisposable # "live"
  /\ lastOp' = "deactivate"
  /\ err' = "none"
  /\ calls' = <<>>
  /\ UNCHANGED <<_currentlyActiveFeatures, _activationDisposable,
                 _config, loadListeners, useFeatureRules, enabledFeatureGroups, hostPkg,
                 rootLoaded, configSubscriptions, activationRequested, configChanges, resolveCall,
                 deactivateCompleted,
                 reorderCall>>

\* deactivate() with its invariant failing.
DeactivateRejected ==
  /\ _activationDisposable # "live"
  /\ lastOp' = "deactivate"
  /\ err' = "invariant"
  /\ calls' = <<>>
  /\ UNCHANGED <<_currentlyActiveFeatures, _activationDisposable,
                 _config, loadListeners, useFeatureRules, enabledFeatureGroups, hostPkg,
                 rootLoaded, configSubscriptions, activationRequested, configChanges, resolveCall,
                 deactivateCompleted,
                 reorderCall>>

\* The body of deactivate() on the set of active features.
deactivateAll(active, features, h, ft) ==
  forEach(setOrder(features, active),
          LAMBDA hh, feature : safeDeactivate(hh, feature, TRUE, ft),
          h)

\* deactivate() without the assignment of a new, empty set of active features.
DeactivateKeepingActiveFeatures ==
  /\ _activationDisposable = "live"
  /\ \E ft \in faultsAmong({}, { n \in namesOf(_currentlyActiveFeatures) :
                                        hostPkg[n] # "none" }, {}) :
       LET h == deactivateAll(_currentlyActiveFeatures, _features,
                              Thread(hostPkg, activationRequested), ft)
       IN /\ hostPkg' = h.pkg
          /\ calls' = h.calls
          /\ activationRequested' = h.req
          /\ err' = IF h.threw THEN "host" ELSE "none"
          /\ _currentlyActiveFeatures' = _currentlyActiveFeatures
          /\ _activationDisposable' = IF h.threw THEN _activationDisposable ELSE "null"
          /\ configSubscriptions' = IF h.threw THEN configSubscriptions
                                    ELSE configSubscriptions - 2
          /\ deactivateCompleted' = (deactivateCompleted \/ ~h.threw)
  /\ lastOp' = "deactivate"
  /\ UNCHANGED <<_config, loadListeners, useFeatureRules,
                 enabledFeatureGroups, rootLoaded, configChanges, resolveCall,
                 reorderCall>>

\* deactivate()
Deactivate ==
  /\ _activationDisposable = "live"
  /\ \E ft \in faultsAmong({}, { n \in namesOf(_currentlyActiveFeatures) :
                                        hostPkg[n] # "none" }, {}) :
       LET h == deactivateAll(_currentlyActiveFeatures, _features,
                              Thread(hostPkg, activationRequested), ft)
       IN /\ hostPkg' = h.pkg
          /\ calls' = h.calls
          /\ activationRequested' = h.req
          /\ err' = IF h.threw THEN "host" ELSE "none"
          /\ _currentlyActiveFeatures' = IF h.threw THEN _currentlyActiveFeatures ELSE {}
          /\ _activationDisposable' = IF h.threw THEN _activationDisposable ELSE "null"
          /\ configSubscriptions' = IF h.threw THEN configSubscriptions
                                    ELSE configSubscriptions - 2
          /\ deactivateCompleted' = (deactivateCompleted \/ ~h.threw)
  /\ lastOp' = "deactivate"
  /\ UNCHANGED <<_config, loadListeners, useFeatureRules,
                 enabledFeatureGroups, rootLoaded, configChanges, resolveCall,
                 reorderCall>>

\* The body of serialize(): this._features.forEach(safeSerialize)
serializeAll(features, h, ft) ==
  forEach(features, LAMBDA hh, feature : safeSerialize(hh, feature, ft), h)

\* serialize()
Serialize ==
  /\ \E ft \in faultsAmong({}, {}, { n \in NameSet : hostPkg[n] = "active" }) :
       LET h == serializeAll(_features, Thread(hostPkg, activationRequested), ft)
       IN /\ calls' = h.calls
          /\ err' = IF h.threw THEN "host" ELSE "none"
  /\ lastOp' = "serialize"
  /\ UNCHANGED <<_currentlyActiveFeatures, _activationDisposable,
                 _config, loadListeners, useFeatureRules, enabledFeatureGroups, hostPkg,
                 rootLoaded, configSubscriptions, activationRequested, configChanges, resolveCall,
                 deactivateCompleted,
                 reorderCall>>

\* The loader as its owner package drives it: load, activation, the
\* configuration changing, deactivation.
Next ==
  \/ Load
  \/ OwnerPackageLoaded
  \/ Activate
  \/ UseRuleChanged
  \/ EnabledGroupsChanged
  \/ Deactivate

Spec == Init /\ [][Next]_vars

\* The same, with an owner that also calls updateActiveFeatures() itself.
NextDirect ==
  \/ Next
  \/ UpdateActiveFeatures

SpecDirect == Init /\ [][NextDirect]_vars

\* The same as Spec, with an owner that also calls serialize().
NextSerialize ==
  \/ Next
  \/ Serialize

SpecSerialize == Init /\ [][NextSerialize]_vars

-----------------------------------------------------------------------------
(* getEnabledFeatures on loaders of several catalogs, group definitions and
   configurations *)

ResolveCatalogs == { InputFeatures, <<FeatSample, FeatHg>> }

ResolveGroupDefs ==
  { [g \in {"g1", "g2", REQUIRED_FEATURE_GROUP, "bad"} |->
       CASE g = "g1" -> ArrayOf(<<NameUi, NameSample>>)
         [] g = "g2" -> ArrayOf(<<NameHg, NameSampleX, NameGhost>>)
         [] g = REQUIRED_FEATURE_GROUP -> ArrayOf(<<NameUi, NameGhost, NameSample>>)
         [] OTHER -> NotAnArray],
    [g \in {"g1", "g2"} |->
       CASE g = "g1" -> ArrayOf(<<NameHg>>)
         [] OTHER -> ArrayOf(<<NameGhost>>)] }

ResolveNames == NameSet \cup {NameSample}

ResolveGroupChoices ==
  {GroupsUnset, GroupsOf(<<>>), GroupsOf(<<"g1">>), GroupsOf(<<"g2", "g1">>),
   GroupsOf(<<"gX", REQUIRED_FEATURE_GROUP>>), GroupsOf(<<"bad", "g2">>)}

InitResolve ==
  /\ InitLoader
  /\ \E features \in ResolveCatalogs, featureGroups \in ResolveGroupDefs,
        rules \in [ResolveNames -> RuleValues \cup {NULL}],
        enabledGroups \in ResolveGroupChoices :
       resolveCall = [features |-> features, featureGroups |-> featureGroups,
                      rules |-> rules, enabledGroups |-> enabledGroups,
                      done |-> FALSE, result |-> {}]
  /\ reorderCall = NoReorderCall

\* new FeatureLoader({features, featureGroups}).getEnabledFeatures() under the
\* configuration (rules, enabledGroups).
GetEnabledFeatures ==
  /\ ~resolveCall.done
  /\ resolveCall' =
       [resolveCall EXCEPT
          !.done = TRUE,
          !.result = getEnabledFeatures(
                       reorderFeatures(resolveCall.features),
                       groupFeatures(reorderFeatures(resolveCall.features),
                                     resolveCall.featureGroups),
                       resolveCall.rules, resolveCall.enabledGroups)]
  /\ UNCHANGED <<_currentlyActiveFeatures, _activationDisposable, _config, loadListeners,
                 useFeatureRules, enabledFeatureGroups, hostPkg, rootLoaded, calls, lastOp,
                 err, configSubscriptions, activationRequested, configChanges,
                 deactivateCompleted,
                 reorderCall>>

NextResolve == GetEnabledFeatures

SpecResolve == InitResolve /\ [][NextResolve]_vars

-----------------------------------------------------------------------------
(* reorderFeatures on the catalogs a loader can be constructed with *)

ReorderFeatureSet == {FeatUi, FeatSampleX, FeatHg, FeatSample, FeatGit}

\* The arrays of at most MaxReorderLen features, no feature twice.
ReorderInputs ==
  { fs \in UNION { [1..n -> ReorderFeatureSet] : n \in 0..MaxReorderLen } :
      \A i, j \in 1..Len(fs) : fs[i] = fs[j] => i = j }

InitReorder ==
  /\ InitLoader
  /\ resolveCall = NoResolveCall
  /\ \E fs \in ReorderInputs :
       reorderCall = [given |-> fs, features_ |-> fs, done |-> FALSE, returned |-> <<>>]

\* reorderFeatures(features_): the sort works on features_.slice(), so the
\* array given is what it was.
ReorderFeatures ==
  /\ ~reorderCall.done
  /\ reorderCall' =
       [reorderCall EXCEPT
          !.done = TRUE,
          !.returned = reorderFeatures(reorderCall.features_)]
  /\ UNCHANGED <<_currentlyActiveFeatures, _activationDisposable, _config, loadListeners,
                 useFeatureRules, enabledFeatureGroups, hostPkg, rootLoaded, calls, lastOp,
                 err, configSubscriptions, activationRequested, configChanges,
                 resolveCall, deactivateCompleted>>

NextReorder == ReorderFeatures

SpecReorder == InitReorder /\ [][NextReorder]_vars

\* The same as Spec, with an owner that also calls activate() and deactivate()
\* out of order, and a host that also loads other packages.
NextLifecycle ==
  \/ Next
  \/ OtherPackageLoaded
  \/ ActivateRejected
  \/ DeactivateRejected

SpecLifecycle == Init /\ [][NextLifecycle]_vars

-----------------------------------------------------------------------------
(* Properties *)

\* The last operation ran updateActiveFeatures() to its end, by return or by
\* exception.
PassEnded ==
  \/ lastOp = "activate" /\ err # "invariant"
  \/ lastOp = "updateActiveFeatures"
  \/ lastOp \in {"useRuleChanged", "enabledGroupsChanged"} /\ configSubscriptions > 0

\* resolve(current rule table, current enabled-group selection)
desiredNow ==
  getEnabledFeatures(_features, _featureGroups, useFeatureRules, enabledFeatureGroups)

\* The packages named by the calls of operation `op` in a log.
calledNames(log, op) == { log[i].pkg : i \in { j \in 1..Len(log) : log[j].op = op } }
callCount(log, op) == Cardinality({ j \in 1..Len(log) : log[j].op = op })

\* C1: whenever a call of updateActiveFeatures() ends, the set of active
\* features equals the set the configuration enables, also when a host call
\* failed during the pass.
C1_ActiveSetIsDesiredAfterPass ==
  PassEnded => _currentlyActiveFeatures = desiredNow

\* C2: one pass asks the host to activate exactly the enabled features that
\* were not active and to deactivate exactly the active features that are no
\* longer enabled, every activation before every deactivation, and leaves the
\* enabled set as the set of active features.
C2_PassRequestsExactlyTheDiff ==
  [][PassEnded' =>
       LET toActivate == namesOf(desiredNow' \ _currentlyActiveFeatures)
           toDeactivate == namesOf(_currentlyActiveFeatures \ desiredNow')
       IN /\ calledNames(calls', "activatePackage") = toActivate
          /\ callCount(calls', "activatePackage") = Cardinality(toActivate)
          /\ calledNames(calls', "deactivatePackage") = toDeactivate
          /\ callCount(calls', "deactivatePackage") = Cardinality(toDeactivate)
          /\ \A i, j \in 1..Len(calls') :
               calls'[i].op = "activatePackage" /\ calls'[j].op = "deactivatePackage"
                 => i < j
          /\ _currentlyActiveFeatures' = desiredNow']_vars

\* C3: when the host's activation call throws for a feature during a pass, the
\* error does not reach the caller and the set of active features is still
\* replaced by the enabled set.
C3_ActivationErrorIsIsolated ==
  (PassEnded /\ \E i \in 1..Len(calls) :
                  calls[i].op = "activatePackage" /\ calls[i].threw)
    => (err = "none" /\ _currentlyActiveFeatures = desiredNow)

\* The inclusion rule, stated on the inputs of one call of getEnabledFeatures.
ruleOf(rc, name) ==
  IF rc.rules[name] # NULL THEN rc.rules[name]
  ELSE IF startsWith(name, SAMPLE_PREFIX) THEN "never" ELSE "default"

memberOfGroup(rc, name, group) ==
  /\ group \in DOMAIN rc.featureGroups
  /\ rc.featureGroups[group].isArray
  /\ \E i \in 1..Len(rc.featureGroups[group].names) :
       rc.featureGroups[group].names[i] = name

eligibleByGroup(rc, name) ==
  \/ rc.enabledGroups.isNull
  \/ \E i \in 1..Len(rc.enabledGroups.groups) :
       memberOfGroup(rc, name, rc.enabledGroups.groups[i])

included(rc, name) ==
  \/ ruleOf(rc, name) = "always"
  \/ ruleOf(rc, name) = "default" /\ eligibleByGroup(rc, name)
  \/ memberOfGroup(rc, name, "nuclide-required")

\* C4: getEnabledFeatures returns exactly the catalog features whose rule is
\* 'always', or whose rule is 'default' and that are eligible by group, or
\* that are members of the required group; the rule is the table's entry,
\* else 'never' for a name starting with 'sample-', else 'default'; a feature
\* is eligible when the selection is unset or names a group it belongs to.
C4_EnabledFeaturesAreTheIncludedOnes ==
  resolveCall.done =>
    resolveCall.result =
      { f \in Range(resolveCall.features) : included(resolveCall, f.pkg.name) }

\* A call that returned a required feature whose rule is 'never' and an
\* 'always' feature that no selected group holds.
C4_Witness ==
  /\ resolveCall.done
  /\ ~resolveCall.enabledGroups.isNull
  /\ \E f, g \in resolveCall.result :
       /\ resolveCall.rules[f.pkg.name] = "never"
       /\ resolveCall.rules[g.pkg.name] = "always"
       /\ ~eligibleByGroup(resolveCall, g.pkg.name)
       /\ ~memberOfGroup(resolveCall, g.pkg.name, "nuclide-required")

\* C5: the loader never requests host activation of a feature that has an
\* activation request outstanding: one the host took (the call returned) and
\* that no deactivation request for the feature has followed.
C5_NoSecondActivationRequest ==
  [][\A i \in 1..Len(calls') :
       calls'[i].op = "activatePackage" => calls'[i].pkg \notin activationRequested]_vars

\* The step is a deactivate() that passed its invariant.
deactivateRan == lastOp' = "deactivate" /\ err' # "invariant"

\* The step is a change of the rule table or of the enabled-group selection.
configChangeRan == lastOp' \in {"useRuleChanged", "enabledGroupsChanged"}

\* What deactivate() leaves, and what a configuration change does once the
\* subscriptions are released.
deactivateReleases ==
  /\ deactivateRan =>
       /\ \A i \in 1..Len(calls') :
            calls'[i].op = "deactivatePackage" /\ calls'[i].suppress
       /\ _currentlyActiveFeatures' = {}
       /\ configSubscriptions = 2
       /\ configSubscriptions' = 0
       /\ _activationDisposable' = "null"
  /\ (configChangeRan /\ _activationDisposable = "null") =>
       /\ calls' = <<>>
       /\ UNCHANGED <<_currentlyActiveFeatures, hostPkg, activationRequested>>

\* C6, as stated: deactivate() requests host deactivation, serialization
\* suppressed, of every active feature, empties the set of active features
\* and releases both subscriptions; a later configuration change issues no
\* host call and leaves the set of active features alone.
C6_DeactivateRequestsEveryActiveFeature ==
  [][/\ deactivateReleases
     /\ deactivateRan =>
          /\ calledNames(calls', "deactivatePackage") = namesOf(_currentlyActiveFeatures)
          /\ Len(calls') = Cardinality(_currentlyActiveFeatures)]_vars

\* C6, amended: the deactivation is requested once for every active feature
\* whose package the host reports loaded, and for no other.
C6_DeactivateRequestsEveryLoadedActiveFeature ==
  [][/\ deactivateReleases
     /\ deactivateRan =>
          LET loaded == { n \in namesOf(_currentlyActiveFeatures) : hostPkg[n] # "none" }
          IN /\ calledNames(calls', "deactivatePackage") = loaded
             /\ Len(calls') = Cardinality(loaded)]_vars

\* deactivate() has just deactivated two features or more.
C6_Witness ==
  /\ lastOp = "deactivate"
  /\ err = "none"
  /\ Len(calls) >= 2
  /\ \A i \in 1..Len(calls) : calls[i].op = "deactivatePackage" /\ calls[i].suppress
  /\ _currentlyActiveFeatures = {}
  /\ configSubscriptions = 0

\* C7, as stated: every deactivation a pass of updateActiveFeatures() requests
\* is requested with serialization suppressed.
C7_PassDeactivationsSuppressSerialization ==
  PassEnded =>
    \A i \in 1..Len(calls) : calls[i].op = "deactivatePackage" => calls[i].suppress

\* C7, amended: every deactivation a pass requests is requested with
\* serialization not suppressed, and every deactivation deactivate() requests
\* with serialization suppressed.
C7_OnlyDeactivateSuppressesSerialization ==
  /\ PassEnded =>
       \A i \in 1..Len(calls) : calls[i].op = "deactivatePackage" => ~calls[i].suppress
  /\ lastOp = "deactivate" =>
       \A i \in 1..Len(calls) : calls[i].op = "deactivatePackage" => calls[i].suppress

\* A pass has just requested a deactivation.
C7_Witness ==
  /\ PassEnded
  /\ \E i \in 1..Len(calls) : calls[i].op = "deactivatePackage" /\ ~calls[i].suppress

\* C8: a call of updateActiveFeatures() directly after a pass that returned,
\* the configuration unchanged, issues no host call and leaves the set of
\* active features as it is.
C8_SecondPassDoesNothing ==
  [][(/\ PassEnded
      /\ err = "none"
      /\ lastOp' = "updateActiveFeatures"
      /\ UNCHANGED <<useFeatureRules, enabledFeatureGroups>>)
       => (calls' = <<>> /\ err' = "none" /\ UNCHANGED _currentlyActiveFeatures)]_vars

\* updateActiveFeatures() has just been called with every enabled feature
\* active already.
C8_Witness ==
  /\ lastOp = "updateActiveFeatures"
  /\ err = "none"
  /\ calls = <<>>
  /\ Cardinality(_currentlyActiveFeatures) >= 2
  /\ _currentlyActiveFeatures = desiredNow

\* C9: when the host's deactivation call throws for a feature, in a pass or in
\* deactivate(), the error does not reach the caller, the deactivation of the
\* other features due is requested as without the error, and the operation
\* completes: the pass replaces the set of active features by the enabled
\* set, deactivate() empties it and releases the subscriptions.
C9_DeactivationErrorIsIsolated ==
  [][(\E i \in 1..Len(calls') : calls'[i].op = "deactivatePackage" /\ calls'[i].threw)
       => /\ err' = "none"
          /\ PassEnded' =>
               /\ _currentlyActiveFeatures' = desiredNow'
               /\ calledNames(calls', "deactivatePackage") =
                    { n \in namesOf(_currentlyActiveFeatures \ desiredNow') :
                        hostPkg[n] # "none" }
          /\ lastOp' = "deactivate" =>
               /\ _currentlyActiveFeatures' = {}
               /\ _activationDisposable' = "null"
               /\ configSubscriptions' = 0
               /\ calledNames(calls', "deactivatePackage") =
                    { n \in namesOf(_currentlyActiveFeatures) : hostPkg[n] # "none" }]_vars

\* A pass whose first deactivation threw and was followed by another one.
C9_Witness ==
  /\ PassEnded
  /\ Len(calls) >= 2
  /\ calls[1].op = "deactivatePackage" /\ calls[1].threw
  /\ calls[2].op = "deactivatePackage" /\ ~calls[2].threw
  /\ _currentlyActiveFeatures = desiredNow

\* C10: serialize() requests host serialization once for every catalog feature
\* the host reports active and for no other, also after one of the requests
\* threw, lets no error reach the caller, and changes nothing of the loader
\* nor of the host's packages.
C10_SerializeRequestsEveryActivePackage ==
  [][lastOp' = "serialize" =>
       /\ [i \in 1..Len(calls') |-> calls'[i].pkg] =
            SelectSeq([i \in 1..Len(_features) |-> packageNameFromPath(_features[i].path)],
                      LAMBDA n : hostPkg[n] = "active")
       /\ \A i \in 1..Len(calls') : calls'[i].op = "serializePackage"
       /\ err' = "none"
       /\ UNCHANGED <<_currentlyActiveFeatures, _activationDisposable, configSubscriptions,
                      hostPkg, activationRequested, _config, loadListeners>>]_vars

\* serialize() has just gone on after the first serialization threw.
C10_Witness ==
  /\ lastOp = "serialize"
  /\ Len(calls) >= 2
  /\ calls[1].threw
  /\ ~calls[2].threw

\* C11, as stated: once deactivate() has completed, every later activate() is
\* rejected by its invariant, creates no configuration subscription and
\* requests no activation.
C11_DeactivatedIsTerminal ==
  [][(deactivateCompleted /\ lastOp' = "activate")
       => /\ err' = "invariant"
          /\ configSubscriptions' = configSubscriptions
          /\ callCount(calls', "activatePackage") = 0]_vars

\* C11, amended: activate() called after a completed deactivate(), the loader
\* not activated again since, is accepted as the first one was: it subscribes
\* to the two configuration keys anew and runs a pass over the enabled
\* features.
C11_ActivateAfterDeactivateIsAccepted ==
  [][(deactivateCompleted /\ _activationDisposable = "null" /\ lastOp' = "activate")
       => /\ err' # "invariant"
          /\ _activationDisposable' = "live"
          /\ configSubscriptions = 0
          /\ configSubscriptions' = 2
          /\ calledNames(calls', "activatePackage") \subseteq namesOf(desiredNow)
          /\ calls' = <<>> => desiredNow = {}]_vars

\* activate() has just returned on a loader that deactivate() had left, with
\* features activated again.
C11_Witness ==
  /\ deactivateCompleted
  /\ lastOp = "activate"
  /\ err = "none"
  /\ _activationDisposable = "live"
  /\ configSubscriptions = 2
  /\ callCount(calls, "activatePackage") >= 2
  /\ _currentlyActiveFeatures = desiredNow

\* C12: a call of load() on a loader whose load() has run before fails its
\* invariant and registers no further listener for the owner package's load.
C12_SecondLoadIsRejected ==
  [][(_config = "built" /\ lastOp' = "load")
       => (err' = "invariant" /\ loadListeners' = loadListeners)]_vars

\* The step is a call of activate() that its invariants reject: no
\* subscription, no host call, nothing of the loader changed.
activateRejected ==
  /\ err' = "invariant"
  /\ calls' = <<>>
  /\ UNCHANGED <<_currentlyActiveFeatures, _activationDisposable, configSubscriptions,
                 hostPkg, activationRequested>>

\* C13, as stated: activate() on a loader whose load() never ran, or on an
\* activated loader, fails its invariant, creates no subscription, requests
\* no activation and leaves the set of active features alone.
C13_ActivateNeedsLoad ==
  [][(lastOp' = "activate" /\ (_config = "null" \/ _activationDisposable = "live"))
       => activateRejected]_vars

\* C13, amended: activate() is rejected, with no subscription, no host call
\* and the set of active features left alone, exactly when the loader is
\* activated or the host does not report the owner package loaded; otherwise
\* it is accepted and subscribes, whether load() has run or not.
C13_ActivateNeedsOwnerPackageLoaded ==
  [][lastOp' = "activate"
       => IF _activationDisposable = "live" \/ ~rootLoaded
          THEN activateRejected
          ELSE /\ err' # "invariant"
               /\ _activationDisposable' = "live"
               /\ configSubscriptions' = configSubscriptions + 2]_vars

\* A second activate() has just been rejected on an activated loader with
\* active features.
C13_Witness ==
  /\ lastOp = "activate"
  /\ err = "invariant"
  /\ _activationDisposable = "live"
  /\ configSubscriptions = 2
  /\ _currentlyActiveFeatures # {}

\* C14: deactivate() on a loader that is not activated, before any activate()
\* or after a completed deactivate(), fails its invariant, requests no host
\* deactivation and leaves the loader as it is; on an activated loader the
\* invariant passes.
C14_DeactivateNeedsActivated ==
  [][lastOp' = "deactivate"
       => IF _activationDisposable # "live"
          THEN /\ err' = "invariant"
               /\ calls' = <<>>
               /\ UNCHANGED <<_currentlyActiveFeatures, _activationDisposable,
                              configSubscriptions, hostPkg, activationRequested,
                              deactivateCompleted>>
          ELSE err' # "invariant"]_vars

\* A second deactivate() has just been rejected after a completed one.
C14_Witness ==
  /\ lastOp = "deactivate"
  /\ err = "invariant"
  /\ deactivateCompleted
  /\ _activationDisposable = "null"
  /\ configSubscriptions = 0

\* n copies of the sequence s, one after the other.
RECURSIVE repeated(_, _)
repeated(n, s) == IF n = 0 THEN <<>> ELSE s \o repeated(n - 1, s)

\* The packages a load pass asks the host to load under the current
\* configuration: the enabled features, in the order of this._features.
loadPassNow ==
  LET enabled == setOrder(_features, desiredNow)
  IN [i \in 1..Len(enabled) |-> packageNameFromPath(enabled[i].path)]

\* C15: the load pass runs on the signal that the owner package is loaded,
\* once for each load() whose listener is registered, and the listener is
\* gone afterwards; the pass asks the host to load, not to activate, exactly
\* the features enabled at that moment, in the order of this._features; no
\* other step, a signal for another package included, requests a load or
\* removes a listener.
C15_LoadPassRunsOnceOnOwnerLoaded ==
  [][/\ lastOp' = "ownerPackageLoaded" =>
          /\ [i \in 1..Len(calls') |-> calls'[i].pkg] = repeated(loadListeners, loadPassNow)
          /\ \A i \in 1..Len(calls') : calls'[i].op = "loadPackage"
          /\ loadListeners' = 0
          /\ \A n \in NameSet : hostPkg'[n] = "active" => hostPkg[n] = "active"
          /\ UNCHANGED <<_currentlyActiveFeatures, activationRequested>>
     /\ lastOp' # "ownerPackageLoaded" =>
          /\ callCount(calls', "loadPackage") = 0
          /\ loadListeners' >= loadListeners]_vars

\* The owner package is signalled loaded again after the load pass ran: no
\* load is requested this time.
C15_Witness ==
  /\ lastOp = "ownerPackageLoaded"
  /\ _config = "built"
  /\ loadListeners = 0
  /\ calls = <<>>
  /\ hostPkg[NameHg] = "loaded"
  /\ hostPkg[NameUi] = "loaded"

\* The position of feature f in the sequence fs that holds it.
positionIn(fs, f) == CHOOSE i \in 1..Len(fs) : fs[i] = f

\* C16: the result of reorderFeatures is a permutation of the array given in
\* which every feature providing 'atom.repository-provider' precedes every
\* feature that does not, two features of the same kind are in the order the
\* array gave them, and the array given is not modified.
C16_ReorderIsStablePartition ==
  reorderCall.done =>
    LET given == reorderCall.given
        out == reorderCall.returned
        isProvider(f) == "atom.repository-provider" \in f.pkg.providedServices
    IN /\ Len(out) = Len(given)
       /\ Range(out) = Range(given)
       /\ \A i, j \in 1..Len(out) :
            i < j =>
              /\ ~(isProvider(out[j]) /\ ~isProvider(out[i]))
              /\ isProvider(out[i]) = isProvider(out[j])
                   => positionIn(given, out[i]) < positionIn(given, out[j])
       /\ reorderCall.features_ = given

\* A call that moved two providers, in their order, before the features
\* they followed.
C16_Witness ==
  /\ reorderCall.done
  /\ reorderCall.given = <<FeatUi, FeatHg, FeatSampleX, FeatGit>>
  /\ reorderCall.returned = <<FeatHg, FeatGit, FeatUi, FeatSampleX>>

\* C17: when the first deactivate() of a loader returns, every feature the
\* host activated at the loader's request has had its deactivation requested
\* after its last activation request: none is left active with no
\* deactivation request.
C17_NoActivationLeftAtTeardown ==
  [][(deactivateRan /\ ~deactivateCompleted)
       => \A n \in activationRequested' : hostPkg'[n] # "active"]_vars

\* C18: when the enabled-group selection is an empty list, every feature of
\* the catalog whose rule is 'default' is in the set getEnabledFeatures
\* returns, as when the selection is undefined.
C18_EmptySelectionEnablesEveryDefaultFeature ==
  (/\ resolveCall.done
   /\ ~resolveCall.enabledGroups.isNull
   /\ resolveCall.enabledGroups.groups = <<>>)
    => \A f \in Range(resolveCall.features) :
         ruleOf(resolveCall, f.pkg.name) = "default" => f \in resolveCall.result

\* C19: with updateActiveFeatures() run only by activate() and by the two
\* configuration subscriptions, the set of active features is empty whenever
\* the loader is not activated, and holds features of the catalog only.
C19_ActiveSetEmptyUnlessActivated ==
  /\ _activationDisposable = "null" => _currentlyActiveFeatures = {}
  /\ _currentlyActiveFeatures \subseteq Range(InputFeatures)

\* The configuration has changed after deactivate() emptied a set of two
\* active features or more: features are enabled and none is active.
C19_Witness ==
  /\ deactivateCompleted
  /\ _activationDisposable = "null"
  /\ lastOp \in {"useRuleChanged", "enabledGroupsChanged"}
  /\ Cardinality({ n \in NameSet : hostPkg[n] = "loaded" }) >= 2
  /\ desiredNow # {}
  /\ _currentlyActiveFeatures = {}

====
